---- MODULE Spec2Model ----
(***************************************************************************)
(* compETAG: chunked ETag / MD5 digests of local files (core.py) and the   *)
(* batch reconciliation of expected digests against local files or the    *)
(* ETags reported by S3 (check_hashes).                                     *)
(*                                                                         *)
(* Strings are sequences of one-character strings, byte strings are        *)
(* sequences of integers 0..255.  A printed line is a record of its        *)
(* tab-separated fields.  An exception leaving a function is the field     *)
(* "raised" of the value the function's operator yields.                   *)
(***************************************************************************)
EXTENDS Integers, Sequences, FiniteSets, TLC

VARIABLES
    fs,     \* local file system: file name -> [readable, data]
    s3,     \* the bucket: sequence of [key, e_tag] in listing order
    pc,     \* position in check_hashes / the direct call made
    args,   \* arguments of the check_hashes call in progress
    loop,   \* local modes: what lines 221-228 hand to the loop of line 229
    k,      \* index of the next entry of hashes to handle
    data,   \* s3uri mode: the list retrieve_s3uri_etag returned
    trace,  \* events so far: file reads, remote calls, printed lines
    raised, \* the exception that left check_hashes, or "none"
    call    \* the last direct call of a digest function and its outcome

vars == <<fs, s3, pc, args, loop, k, data, trace, raised, call>>

(***************************************************************************)
(* Bounds of the model.                                                    *)
(***************************************************************************)
MaxFileLen == 5
MaxChunk == 3
MaxEntries == 2

(***************************************************************************)
(* Strings                                                                 *)
(***************************************************************************)
QUOTE == "\""

HexDigits == <<"0", "1", "2", "3", "4", "5", "6", "7",
               "8", "9", "a", "b", "c", "d", "e", "f">>

DecDigits == <<"0", "1", "2", "3", "4", "5", "6", "7", "8", "9">>

Min(a, b) == IF a < b THEN a ELSE b

RECURSIVE Concat(_)
\* b"".join(list)
Concat(ss) == IF ss = <<>> THEN <<>> ELSE Head(ss) \o Concat(Tail(ss))

RECURSIVE str(_)
\* "{}".format(n) of a non-negative integer
str(n) == IF n < 10 THEN <<DecDigits[n + 1]>>
          ELSE str(n \div 10) \o <<DecDigits[(n % 10) + 1]>>

RECURSIVE lstrip(_, _)
lstrip(s, ch) == IF s # <<>> /\ Head(s) = ch THEN lstrip(Tail(s), ch) ELSE s

RECURSIVE rstrip(_, _)
rstrip(s, ch) == IF s # <<>> /\ s[Len(s)] = ch
                 THEN rstrip(SubSeq(s, 1, Len(s) - 1), ch) ELSE s

\* strip that leaves the trailing characters in place
strip_leading_only(s, ch) == lstrip(s, ch)

\* str.strip(chars) with a single character: every leading and every
\* trailing occurrence is removed
strip(s, ch) == rstrip(lstrip(s, ch), ch)

\* x in y for strings
Contains(y, x) ==
    \E p \in 0..(Len(y) - Len(x)) : SubSeq(y, p + 1, p + Len(x)) = x

(***************************************************************************)
(* hashlib.md5, abstracted: a streaming hash with a 16-bit state whose     *)
(* raw digest is 2 bytes and whose hex digest is 4 lowercase hex digits.   *)
(***************************************************************************)
md5_new == 5381

RECURSIVE md5_update(_, _)
md5_update(h, bytes) ==
    IF bytes = <<>> THEN h
    ELSE md5_update((h * 33 + Head(bytes) + 1) % 65536, Tail(bytes))

md5(bytes) == md5_update(md5_new, bytes)

digest(h) == <<h \div 256, h % 256>>

RECURSIVE Hex(_)
Hex(bytes) ==
    IF bytes = <<>> THEN <<>>
    ELSE <<HexDigits[(Head(bytes) \div 16) + 1], HexDigits[(Head(bytes) % 16) + 1]>>
         \o Hex(Tail(bytes))

hexdigest(h) == Hex(digest(h))

(***************************************************************************)
(* Files                                                                   *)
(***************************************************************************)
\* f.read(n) at offset pos: at most n bytes for n >= 0, the rest for n = -1
\* (a buffered reader refuses n < -1 with ValueError, see etag_checksum)
read(content, pos, n) ==
    IF n = -1 THEN SubSeq(content, pos + 1, Len(content))
    ELSE SubSeq(content, pos + 1, Min(pos + n, Len(content)))

RECURSIVE ReadFrom(_, _, _)

\* a read loop that stops at the first short block and drops it
ReadFullBlocksOnly(content, pos, n) ==
    LET blk == read(content, pos, n)
    IN  IF blk = <<>> \/ (n > 0 /\ Len(blk) < n) THEN <<>>
        ELSE <<blk>> \o ReadFrom(content, pos + Len(blk), n)

\* iter(lambda: f.read(n), b""): the blocks read up to the first empty one
ReadFrom(content, pos, n) ==
    LET blk == read(content, pos, n)
    IN  IF blk = <<>> THEN <<>>
        ELSE <<blk>> \o ReadFrom(content, pos + Len(blk), n)

iter_read(content, n) == ReadFrom(content, 0, n)

DefaultChunkSize == 8388608
Md5BufferSize == 1048576

Returned(v) == [raised |-> "none", value |-> v]
Raised(x) == [raised |-> x, value |-> <<>>]

RECURSIVE UpdateAll(_, _)
UpdateAll(h, blocks) ==
    IF blocks = <<>> THEN h
    ELSE UpdateAll(md5_update(h, Head(blocks)), Tail(blocks))

md5_checksum(filename) ==
    IF ~fs[filename].readable THEN Raised("IOError")
    ELSE Returned(hexdigest(UpdateAll(md5_new,
                                      iter_read(fs[filename].data, Md5BufferSize))))

etag_checksum(filename, chunk_size) ==
    IF ~fs[filename].readable THEN Raised("IOError")
    ELSE IF chunk_size < -1 THEN Raised("ValueError")
    ELSE LET blocks == iter_read(fs[filename].data, chunk_size)
             md5s == [j \in 1..Len(blocks) |-> digest(md5(blocks[j]))]
             m == md5(Concat(md5s))
         IN  Returned(IF Len(md5s) > 1
                      THEN hexdigest(m) \o <<"-">> \o str(Len(md5s))
                      ELSE hexdigest(m))

etag_compare(filename, etag, mode, chunk_size) ==
    LET et == strip(etag, QUOTE)
        a == IF mode = "etag" THEN etag_checksum(filename, chunk_size)
             ELSE IF mode = "md5" THEN md5_checksum(filename)
             ELSE Raised("UnboundLocalError")
    IN  [raised |-> a.raised, val |-> (a.raised = "none" /\ et = a.value),
         a |-> a.value, et |-> et]

(***************************************************************************)
(* Inputs                                                                  *)
(***************************************************************************)
Bytes == {0, 1}

RECURSIVE ByteStrings(_)
ByteStrings(n) ==
    IF n = 0 THEN {<<>>}
    ELSE LET shorter == ByteStrings(n - 1)
         IN  shorter \cup {s \o <<b>> : s \in {t \in shorter : Len(t) = n - 1},
                                        b \in Bytes}

File(bytes) == [readable |-> TRUE, data |-> bytes]
Unreadable == [readable |-> FALSE, data |-> <<>>]

Quoted(s) == <<QUOTE>> \o s \o <<QUOTE>>

\* The blocks a byte string splits into at a given part size
Parts(bytes, size) ==
    [j \in 1..((Len(bytes) + size - 1) \div size) |->
        SubSeq(bytes, (j - 1) * size + 1, Min(j * size, Len(bytes)))]

\* The ETag S3 reports for an object uploaded in parts of the given size
S3ETag(bytes, size) ==
    IF Len(bytes) <= size THEN hexdigest(md5(bytes))
    ELSE LET parts == Parts(bytes, size)
         IN  hexdigest(md5(Concat([j \in 1..Len(parts) |-> digest(md5(parts[j]))])))
             \o <<"-">> \o str(Len(parts))

Garbage == <<"0", "0", "0", "0">>

ChunkSizes == (-2..MaxChunk) \cup {DefaultChunkSize}

(***************************************************************************)
(* Direct calls of the digest functions                                    *)
(***************************************************************************)
UnitFile == <<"f">>

NoCall == [fn |-> "none", filename |-> <<>>, etag |-> <<>>, mode |-> "",
           chunk_size |-> 0, blocks |-> <<>>, raised |-> "none",
           value |-> <<>>, val |-> FALSE, et |-> <<>>]

NoArgs == [hashes |-> <<>>, mode |-> "", chunk_size |-> <<>>,
           bucket |-> <<>>, key |-> <<>>, pattern |-> <<>>]

NoResult == [val |-> FALSE, a |-> <<>>, et |-> <<>>]

NoLoop == [m |-> "", cs |-> <<>>, r |-> NoResult]

Idle ==
    /\ pc = "idle" /\ args = NoArgs /\ loop = NoLoop /\ k = 0
    /\ data = <<>> /\ trace = <<>> /\ raised = "none"

InitDigest ==
    /\ fs \in [{UnitFile} -> {Unreadable} \cup {File(b) : b \in ByteStrings(MaxFileLen)}]
    /\ s3 = <<>>
    /\ Idle
    /\ call = NoCall

BlocksRead(filename, n) ==
    IF fs[filename].readable /\ n >= -1 THEN iter_read(fs[filename].data, n) ELSE <<>>

\* The expected digests tried against a file: what S3 would report for it
\* at the part sizes of the model, one unrelated value, each bare, in wire
\* form, doubly quoted and with a stray quote on one side
ExpectedFor(filename) ==
    LET bases == {S3ETag(fs[filename].data, n) : n \in 1..(MaxChunk + 1)}
                 \cup {Garbage}
    IN  UNION {{d, Quoted(d), Quoted(Quoted(d)), <<QUOTE>> \o d, d \o <<QUOTE>>}
               : d \in bases}

DirectCall ==
    /\ call = NoCall
    /\ UNCHANGED <<fs, s3, pc, args, loop, k, data, trace, raised>>

call_md5_checksum ==
    /\ DirectCall
    /\ \E filename \in DOMAIN fs :
        LET r == md5_checksum(filename)
        IN  call' = [NoCall EXCEPT !.fn = "md5_checksum", !.filename = filename,
                        !.blocks = BlocksRead(filename, Md5BufferSize),
                        !.raised = r.raised, !.value = r.value]

call_etag_checksum ==
    /\ DirectCall
    /\ \E filename \in DOMAIN fs, chunk_size \in ChunkSizes :
        LET r == etag_checksum(filename, chunk_size)
        IN  call' = [NoCall EXCEPT !.fn = "etag_checksum", !.filename = filename,
                        !.chunk_size = chunk_size,
                        !.blocks = BlocksRead(filename, chunk_size),
                        !.raised = r.raised, !.value = r.value]

call_etag_compare ==
    /\ DirectCall
    /\ \E filename \in DOMAIN fs, chunk_size \in ChunkSizes,
          mode \in {"etag", "md5", "sha1"} :
        \E etag \in ExpectedFor(filename) :
            LET r == etag_compare(filename, etag, mode, chunk_size)
            IN  call' = [NoCall EXCEPT !.fn = "etag_compare", !.filename = filename,
                            !.etag = etag, !.mode = mode, !.chunk_size = chunk_size,
                            !.raised = r.raised, !.value = r.a, !.val = r.val,
                            !.et = r.et]

NextDigest ==
    \/ call_md5_checksum
    \/ call_etag_checksum
    \/ call_etag_compare

SpecDigest == InitDigest /\ [][NextDigest]_vars

(***************************************************************************)
(* Claims about the digest functions (checked under SpecDigest)            *)
(***************************************************************************)
CalledContent == fs[call.filename].data

EtagChecksumReturned ==
    call.fn = "etag_checksum" /\ call.raised = "none"

\* C1: for every file with size <= chunkSize, chunkSize > 0 (the empty file
\* included), etag_checksum(file, chunkSize) is the whole-file digest
\* md5_checksum(file), the plain hex hash with no "-<count>" suffix.
C1_SinglePartEqualsWholeFileDigest ==
    (EtagChecksumReturned /\ call.chunk_size > 0
        /\ Len(CalledContent) <= call.chunk_size)
    => /\ call.value = md5_checksum(call.filename).value
       /\ call.value = hexdigest(md5(CalledContent))

\* C2: for every file with size > chunkSize > 0, etag_checksum reads the
\* blocks [0,c), [c,2c), ... in order, each of exactly chunkSize bytes
\* except a shorter last one, none empty, and returns the hex hash of the
\* concatenated raw block hashes followed by "-n", n = ceil(size/chunkSize).
C2_MultipartDigest ==
    (EtagChecksumReturned /\ call.chunk_size > 0
        /\ Len(CalledContent) > call.chunk_size)
    => LET c == call.chunk_size
           size == Len(CalledContent)
           n == (size + c - 1) \div c
       IN  /\ Len(call.blocks) = n
           /\ \A j \in 1..n :
                /\ call.blocks[j] = SubSeq(CalledContent, (j - 1) * c + 1,
                                           Min(j * c, size))
                /\ call.blocks[j] # <<>>
                /\ j < n => Len(call.blocks[j]) = c
           /\ Concat(call.blocks) = CalledContent
           /\ call.value =
                hexdigest(md5(Concat([j \in 1..n |-> digest(md5(call.blocks[j]))])))
                \o <<"-">> \o str(n)

C2_Witness ==
    /\ EtagChecksumReturned
    /\ call.chunk_size = 2
    /\ Len(CalledContent) = 5
    /\ Len(call.blocks) = 3
    /\ Len(call.blocks[3]) = 1
    /\ call.value[Len(call.value)] = "3"

StripOneLayer(s) ==
    IF Len(s) >= 2 /\ s[1] = QUOTE /\ s[Len(s)] = QUOTE
    THEN SubSeq(s, 2, Len(s) - 1) ELSE s

Quotes(n) == [j \in 1..n |-> QUOTE]

SameOutcome(r) ==
    /\ r.raised = call.raised
    /\ r.val = call.val
    /\ r.a = call.value
    /\ r.et = call.et

\* C4 as stated: etag_compare removes exactly one layer of surrounding
\* double quotes from the expected digest, if present, and nothing else;
\* comparing against '"d"' and against 'd' gives the same outcome.
C4_StripsExactlyOneLayer ==
    (call.fn = "etag_compare" /\ call.raised = "none")
    => /\ call.et = StripOneLayer(call.etag)
       /\ SameOutcome(etag_compare(call.filename, Quoted(call.etag),
                                   call.mode, call.chunk_size))

\* C4 as amended: etag_compare removes every leading and every trailing
\* double quote from the expected digest (one layer when there is one) and
\* leaves the rest as it is; comparing against '"d"' and against 'd' gives
\* the same matched flag, computed value and normalised expected value.
C4_StripsAllSurroundingQuotes ==
    call.fn = "etag_compare"
    => /\ \E lead \in 0..Len(call.etag), trail \in 0..Len(call.etag) :
            call.etag = Quotes(lead) \o call.et \o Quotes(trail)
       /\ call.et # <<>> => (Head(call.et) # QUOTE /\ call.et[Len(call.et)] # QUOTE)
       /\ SameOutcome(etag_compare(call.filename, Quoted(call.etag),
                                   call.mode, call.chunk_size))
       /\ call.raised = "none" => (call.val <=> call.et = call.value)

C4_Witness ==
    /\ call.fn = "etag_compare"
    /\ call.etag = Quoted(call.et)
    /\ call.et # <<>>
    /\ call.val

\* C8: etag_checksum called with chunkSize <= 0 fails with an
\* invalid-argument error and never returns a digest string.
C8_NonPositiveChunkSizeRejected ==
    (/\ call.chunk_size <= 0
     /\ \/ call.fn = "etag_checksum"
        \/ call.fn = "etag_compare" /\ call.mode = "etag")
    => call.raised # "none"

(***************************************************************************)
(* check_hashes: events and printed lines                                  *)
(***************************************************************************)
Ev(op, kind, mode, e, i, a) ==
    [op |-> op, kind |-> kind, mode |-> mode, e |-> e, i |-> i, a |-> a]

OpenFile(filename) == Ev("open", "", "", <<>>, filename, <<>>)
ListObjects(prefix) == Ev("list", "", "", <<>>, prefix, <<>>)
HeadObject(key) == Ev("head", "", "", <<>>, key, <<>>)

\* "Comparing {}s for {} ..."
Comparing(mode, el) == Ev("print", "Comparing", mode, <<>>, el, <<>>)
\* e \t i \t Ok!
Ok(e, i) == Ev("print", "Ok!", "", e, i, <<>>)
\* e \t i \t --> \t a \t NO MATCH!
NoMatch(e, i, a) == Ev("print", "NO MATCH!", "", e, i, a)
\* "{} not found!"
NotFound(i) == Ev("print", "not found!", "", <<>>, i, <<>>)
\* "Mode '{}' not recognized!"
NotRecognized(mode) == Ev("print", "not recognized!", mode, <<>>, <<>>, <<>>)

(***************************************************************************)
(* check_hashes, local modes: lines 221-228                                *)
(***************************************************************************)
None == <<>>

\* The text numpy stores for chunk_size in the string array
np_str(chunk_size) ==
    IF chunk_size = None THEN <<"N", "o", "n", "e">>
    ELSE IF chunk_size[1] < 0 THEN <<"-">> \o str(-chunk_size[1])
    ELSE str(chunk_size[1])

DigitValue(c) == CHOOSE d \in 0..9 : DecDigits[d + 1] = c

IsDecimal(s) ==
    /\ s # <<>>
    /\ \A j \in 1..Len(s) : \E d \in 0..9 : DecDigits[d + 1] = s[j]

RECURSIVE DecimalValue(_)
DecimalValue(s) ==
    IF s = <<>> THEN 0
    ELSE 10 * DecimalValue(SubSeq(s, 1, Len(s) - 1)) + DigitValue(s[Len(s)])

\* cs.astype(int) of one element: int(text), ValueError when it is no number
astype_int(s) ==
    IF IsDecimal(s) THEN [raised |-> "none", n |-> DecimalValue(s)]
    ELSE IF s # <<>> /\ Head(s) = "-" /\ IsDecimal(Tail(s))
         THEN [raised |-> "none", n |-> -DecimalValue(Tail(s))]
    ELSE [raised |-> "ValueError", n |-> 0]

\* a fallback that digests the whole file, whatever the mode
local_setup_whole_file(mode, chunk_size) ==
    LET cs == astype_int(np_str(chunk_size))
    IN  IF cs.raised = "none" THEN [m |-> mode, cs |-> <<cs.n>>, r |-> NoResult]
        ELSE [m |-> "md5", cs |-> None, r |-> NoResult]

\* np.insert(np.array(hashes), 2, [mode, chunk_size], axis=1) gives every
\* row the text of mode and of chunk_size (cut to the array's string width,
\* which the 32 characters of a digest keep above both).
\* try: res = map(etag_compare, i, e, m, cs.astype(int))
\* except ValueError: res = map(etag_compare, i, e, m)
\* (cs = None: etag_compare is left to its default chunk size)
local_setup(mode, chunk_size) ==
    LET cs == astype_int(np_str(chunk_size))
    IN  IF cs.raised = "none" THEN [m |-> mode, cs |-> <<cs.n>>, r |-> NoResult]
        ELSE [m |-> mode, cs |-> None, r |-> NoResult]

\* One element of res: etag_compare(i, e, m[, cs])
next_res(lp, e, i) ==
    IF lp.cs = None THEN etag_compare(i, e, lp.m, DefaultChunkSize)
    ELSE etag_compare(i, e, lp.m, lp.cs[1])

\* The file etag_compare opens (none when the mode is neither of its two)
Opens(m, i) == IF m \in {"etag", "md5"} THEN <<OpenFile(i)>> ELSE <<>>

(***************************************************************************)
(* S3: get_objects, get_object_etag, get_etags_from_s3uri,                 *)
(* retrieve_s3uri_etag                                                     *)
(***************************************************************************)
IsPrefix(p, key) == Len(p) <= Len(key) /\ SubSeq(key, 1, Len(p)) = p

\* pattern.search(key) for an alternation of literal fragments
Search(pattern, key) == \E j \in 1..Len(pattern) : Contains(key, pattern[j])

SelectObjects(objects, prefix, pattern) ==
    SelectSeq(objects, LAMBDA o : IsPrefix(prefix, o.key) /\ Search(pattern, o.key))

get_objects(prefix, pattern) ==
    LET hits == SelectObjects(s3, prefix, pattern)
    IN  [j \in 1..Len(hits) |-> hits[j].key]

ObjectOf(key) == CHOOSE o \in {s3[j] : j \in 1..Len(s3)} : o.key = key

get_object_etag(key) == <<strip(ObjectOf(key).e_tag, QUOTE), key>>

get_etags_from_s3uri(prefix, pattern) ==
    LET keys == get_objects(prefix, pattern)
    IN  [j \in 1..Len(keys) |-> get_object_etag(keys[j])]

\* The remote calls get_etags_from_s3uri makes: one listing, then one
\* metadata lookup per listed key
RemoteCalls(prefix, pattern) ==
    LET keys == get_objects(prefix, pattern)
    IN  <<ListObjects(prefix)>> \o [j \in 1..Len(keys) |-> HeadObject(keys[j])]

NoData == [data |-> <<>>, calls |-> <<>>]

RECURSIVE ForEachKey(_, _)
\* for Key in key: data.append(...) for every pair of get_etags_from_s3uri
ForEachKey(keys, pattern) ==
    IF keys = <<>> THEN NoData
    ELSE LET rest == ForEachKey(Tail(keys), pattern)
         IN  [data |-> get_etags_from_s3uri(Head(keys), pattern) \o rest.data,
              calls |-> RemoteCalls(Head(keys), pattern) \o rest.calls]

RECURSIVE ForEachBucket(_, _, _)
\* for Bucket in bucket: the model has the one bucket s3, whatever its name
ForEachBucket(buckets, keys, pattern) ==
    IF buckets = <<>> THEN NoData
    ELSE LET first == ForEachKey(keys, pattern)
             rest == ForEachBucket(Tail(buckets), keys, pattern)
         IN  [data |-> first.data \o rest.data, calls |-> first.calls \o rest.calls]

retrieve_s3uri_etag(bucket, key, pattern) ==
    IF bucket = None \/ key = None
    THEN [raised |-> "AssertionError", data |-> <<>>, calls |-> <<>>]
    ELSE LET r == ForEachBucket(bucket, key, pattern)
         IN  [raised |-> "none", data |-> r.data, calls |-> r.calls]

(***************************************************************************)
(* check_hashes: inputs                                                    *)
(***************************************************************************)
FileNames == {<<"a">>, <<"b">>}

SampleBytes == <<0, 1, 1>>

FileStates == {Unreadable, File(<<>>), File(<<1>>), File(SampleBytes)}

FileSystems == [FileNames -> FileStates]

DefaultFs == [n \in FileNames |-> IF n = <<"a">> THEN File(SampleBytes) ELSE File(<<>>)]

EmptyDigest == hexdigest(md5(<<>>))

SampleETag == S3ETag(SampleBytes, 2)

\* The expected column of the input file: bare digests, a wire form,
\* a multipart ETag
ExpectedDigests ==
    {EmptyDigest, Quoted(EmptyDigest), hexdigest(md5(SampleBytes)), SampleETag}

Entries == {<<e, i>> : e \in ExpectedDigests, i \in FileNames}

Batches == UNION {[1..n -> Entries] : n \in 1..MaxEntries}

BatchChunkSizes == {None, <<-2>>, <<0>>, <<2>>}

Modes == {"etag", "md5", "s3uri", "bogus", "MD5"}

S3Keys == << <<"d", "a">>, <<"d", "a", "b">> >>

WireETags == {Quoted(EmptyDigest), Quoted(SampleETag)}

Absent == <<>>

\* The buckets: each key absent or present with one of the wire ETags,
\* in listing (key) order
Buckets ==
    {LET objs == [j \in 1..Len(S3Keys) |-> [key |-> S3Keys[j], e_tag |-> t[j]]]
     IN  SelectSeq(objs, LAMBDA o : o.e_tag # Absent)
     : t \in [1..Len(S3Keys) -> WireETags \cup {Absent}]}

\* (bucket, key): a missing bucket, a missing key, a prefix of every key,
\* one whole key
S3Targets == {<<None, << <<"d">> >> >>,
              << <<"bkt">>, None>>,
              << <<"bkt">>, << <<"d">> >> >>,
              << <<"bkt">>, << <<"d", "a", "b">> >> >>}

PatternArgs == {None, << <<"a", "b">> >>}

(***************************************************************************)
(* check_hashes                                                            *)
(***************************************************************************)
\* a dispatch whose last branch is the local one
Dispatch_else_local(mode) ==
    IF mode = "s3uri" THEN "s3uri" ELSE "local"

\* if mode in ["etag", "md5"]: ... elif mode == "s3uri": ... else: ...
Dispatch(mode) ==
    IF mode \in {"etag", "md5"} THEN "local"
    ELSE IF mode = "s3uri" THEN "s3uri"
    ELSE "unrecognized"

Init ==
    /\ \/ fs \in FileSystems /\ s3 = <<>>
       \/ fs = DefaultFs /\ s3 \in Buckets
    /\ Idle
    /\ call = NoCall

\* lines 220-228
check_hashes_local ==
    /\ pc = "idle"
    /\ \E hashes \in Batches, mode \in Modes, chunk_size \in BatchChunkSizes :
        /\ Dispatch(mode) = "local"
        /\ args' = [NoArgs EXCEPT !.hashes = hashes, !.mode = mode,
                                  !.chunk_size = chunk_size]
        /\ loop' = local_setup(mode, chunk_size)
    /\ pc' = "zip"
    /\ k' = 1
    /\ UNCHANGED <<fs, s3, data, trace, raised, call>>

Entry == args.hashes[k]

AfterEntry == IF k = Len(args.hashes) THEN "done" ELSE pc

\* line 229, zip's next(res): etag_compare opens the file and raises
local_entry_raises ==
    /\ pc = "zip"
    /\ LET r == next_res(loop, Entry[1], Entry[2])
       IN  /\ r.raised # "none"
           /\ trace' = trace \o Opens(loop.m, Entry[2])
           /\ raised' = r.raised
    /\ pc' = "raised"
    /\ UNCHANGED <<fs, s3, args, loop, k, data, call>>

\* lines 229-233: next(res), the progress line, the Ok! line
local_entry_ok ==
    /\ pc = "zip"
    /\ LET r == next_res(loop, Entry[1], Entry[2])
       IN  /\ r.raised = "none"
           /\ r.val
           /\ loop' = [loop EXCEPT !.r = [val |-> r.val, a |-> r.a, et |-> r.et]]
           /\ trace' = trace \o Opens(loop.m, Entry[2])
                             \o <<Comparing(args.mode, Entry[2]),
                                  Ok(Entry[1], Entry[2])>>
    /\ k' = k + 1
    /\ pc' = AfterEntry
    /\ UNCHANGED <<fs, s3, args, data, raised, call>>

\* lines 229-235: next(res), the progress line, the NO MATCH! line
local_entry_no_match ==
    /\ pc = "zip"
    /\ LET r == next_res(loop, Entry[1], Entry[2])
       IN  /\ r.raised = "none"
           /\ ~r.val
           /\ loop' = [loop EXCEPT !.r = [val |-> r.val, a |-> r.a, et |-> r.et]]
           /\ trace' = trace \o Opens(loop.m, Entry[2])
                             \o <<Comparing(args.mode, Entry[2]),
                                  NoMatch(Entry[1], Entry[2], r.a)>>
    /\ k' = k + 1
    /\ pc' = AfterEntry
    /\ UNCHANGED <<fs, s3, args, data, raised, call>>

\* lines 238-239: the pattern made of the identifiers when none is given
DefaultPattern(hashes) == [j \in 1..Len(hashes) |-> hashes[j][2]]

\* lines 237-240, retrieve_s3uri_etag's assertions fail
check_hashes_s3uri_asserts ==
    /\ pc = "idle"
    /\ \E hashes \in Batches, mode \in Modes, target \in S3Targets,
          pattern \in PatternArgs :
        /\ Dispatch(mode) = "s3uri"
        /\ args' = [NoArgs EXCEPT !.hashes = hashes, !.mode = mode,
                                  !.bucket = target[1], !.key = target[2],
                                  !.pattern = pattern]
        /\ LET r == retrieve_s3uri_etag(target[1], target[2],
                        IF pattern = None THEN DefaultPattern(hashes) ELSE pattern)
           IN  /\ r.raised # "none"
               /\ raised' = r.raised
    /\ pc' = "raised"
    /\ UNCHANGED <<fs, s3, loop, k, data, trace, call>>

\* lines 237-240
check_hashes_s3uri ==
    /\ pc = "idle"
    /\ \E hashes \in Batches, mode \in Modes, target \in S3Targets,
          pattern \in PatternArgs :
        /\ Dispatch(mode) = "s3uri"
        /\ args' = [NoArgs EXCEPT !.hashes = hashes, !.mode = mode,
                                  !.bucket = target[1], !.key = target[2],
                                  !.pattern = pattern]
        /\ LET r == retrieve_s3uri_etag(target[1], target[2],
                        IF pattern = None THEN DefaultPattern(hashes) ELSE pattern)
           IN  /\ r.raised = "none"
               /\ data' = r.data
               /\ trace' = trace \o r.calls
    /\ pc' = "report"
    /\ k' = 1
    /\ UNCHANGED <<fs, s3, loop, raised, call>>

\* a selection by key equality instead of containment
MatchingETags_same_key(d, i) ==
    {d[j][1] : j \in {q \in 1..Len(d) : d[q][2] = i}}

\* lines 243-244: set(n for n, m in data if i in m)
MatchingETags(d, i) ==
    {d[j][1] : j \in {q \in 1..Len(d) : Contains(d[q][2], i)}}

\* The orders in which a set may be iterated
Orders(S) ==
    {o \in [1..Cardinality(S) -> S] : \A x \in S : \E j \in DOMAIN o : o[j] = x}

\* lines 247-250
ReportLine(e, i, et) == IF et = e THEN Ok(e, i) ELSE NoMatch(e, i, et)

\* lines 242-250: one line per distinct ETag, in the set's iteration order
s3uri_entry_found ==
    /\ pc = "report"
    /\ LET S3URI_etag == MatchingETags(data, Entry[2])
       IN  /\ S3URI_etag # {}
           /\ \E o \in Orders(S3URI_etag) :
                trace' = trace \o [j \in DOMAIN o |->
                                     ReportLine(Entry[1], Entry[2], o[j])]
    /\ k' = k + 1
    /\ pc' = AfterEntry
    /\ UNCHANGED <<fs, s3, args, loop, data, raised, call>>

\* lines 242-244, 251-252
s3uri_entry_not_found ==
    /\ pc = "report"
    /\ MatchingETags(data, Entry[2]) = {}
    /\ trace' = Append(trace, NotFound(Entry[2]))
    /\ k' = k + 1
    /\ pc' = AfterEntry
    /\ UNCHANGED <<fs, s3, args, loop, data, raised, call>>

\* lines 253-256
check_hashes_unrecognized ==
    /\ pc = "idle"
    /\ \E hashes \in Batches, mode \in Modes :
        /\ Dispatch(mode) = "unrecognized"
        /\ args' = [NoArgs EXCEPT !.hashes = hashes, !.mode = mode]
        /\ trace' = Append(trace, NotRecognized(mode))
    /\ pc' = "done"
    /\ UNCHANGED <<fs, s3, loop, k, data, raised, call>>

Next ==
    \/ check_hashes_local
    \/ local_entry_raises
    \/ local_entry_ok
    \/ local_entry_no_match
    \/ check_hashes_s3uri_asserts
    \/ check_hashes_s3uri
    \/ s3uri_entry_found
    \/ s3uri_entry_not_found
    \/ check_hashes_unrecognized

Spec == Init /\ [][Next]_vars

(***************************************************************************)
(* Claims about check_hashes (checked under Spec)                          *)
(***************************************************************************)
Called == pc # "idle"

LocalMode == Called /\ args.mode \in {"etag", "md5"}

RemoteMode == Called /\ args.mode = "s3uri"

Expected(j) == args.hashes[j][1]

Identifier(j) == args.hashes[j][2]

Printed == SelectSeq(trace, LAMBDA ev : ev.op = "print")

IsResultLine(ev, j) ==
    /\ ev.op = "print"
    /\ ev.kind \in {"Ok!", "NO MATCH!"}
    /\ ev.i = Identifier(j)
    /\ ev.e = Expected(j)

\* C3: in a local mode, an IO error on one entry's file becomes a failing
\* line for that entry only; every entry of the batch, before and after
\* it, still gets its result line and the batch is never aborted.
C3_IOErrorIsolatedPerEntry ==
    (LocalMode /\ pc \in {"done", "raised"} /\ raised \in {"none", "IOError"})
    => /\ raised = "none"
       /\ \A j \in 1..Len(args.hashes) :
            \E p \in DOMAIN trace :
                trace[p].op = "print" /\ trace[p].kind # "Comparing"
                    /\ trace[p].i = Identifier(j)

\* C9: in a local mode, for every entry, in input order, the progress line
\* is printed before the entry's file is read and its result line after.
C9_ProgressLineBeforeRead ==
    LocalMode
    => \A j \in 1..(Len(trace) \div 3) :
        /\ trace[3 * j - 2] = Comparing(args.mode, Identifier(j))
        /\ trace[3 * j - 1] = OpenFile(Identifier(j))
        /\ IsResultLine(trace[3 * j], j)

Fragments ==
    IF args.pattern = None
    THEN {Identifier(j) : j \in 1..Len(args.hashes)}
    ELSE {args.pattern[j] : j \in 1..Len(args.pattern)}

\* The objects of the bucket under one of the prefixes whose key matches
Resolved ==
    {o \in {s3[j] : j \in 1..Len(s3)} :
        /\ \E q \in 1..Len(args.key) : IsPrefix(args.key[q], o.key)
        /\ \E f \in Fragments : Contains(o.key, f)}

\* The distinct reported digests (wire form without its quotes) of the
\* resolved objects whose key contains the identifier of entry j
Reported(j) ==
    {SubSeq(o.e_tag, 2, Len(o.e_tag) - 1) :
        o \in {x \in Resolved : Contains(x.key, Identifier(j))}}

LinesOf(j) == IF Reported(j) = {} THEN 1 ELSE Cardinality(Reported(j))

RECURSIVE LinesBefore(_)
LinesBefore(j) == IF j <= 1 THEN 0 ELSE LinesBefore(j - 1) + LinesOf(j - 1)

\* C5: in mode s3uri, for each entry in input order: one line
\* "<identifier> not found!" when no resolved object's key contains the
\* identifier, otherwise exactly one line per distinct reported digest,
\* Ok! when it equals the expected digest and NO MATCH! with the reported
\* digest when it differs.
C5_RemoteReportPerEntry ==
    (RemoteMode /\ pc \in {"report", "done"})
    => /\ Len(Printed) = LinesBefore(k)
       /\ \A j \in 1..(k - 1) :
            LET seg == SubSeq(Printed, LinesBefore(j) + 1, LinesBefore(j) + LinesOf(j))
            IN  IF Reported(j) = {}
                THEN seg = <<NotFound(Identifier(j))>>
                ELSE \A d \in Reported(j) :
                        Cardinality({p \in 1..Len(seg) :
                            seg[p] = IF d = Expected(j)
                                     THEN Ok(Expected(j), Identifier(j))
                                     ELSE NoMatch(Expected(j), Identifier(j), d)}) = 1

C5_Witness ==
    /\ RemoteMode
    /\ pc = "done"
    /\ Len(args.hashes) = 2
    /\ Cardinality(Reported(1)) = 2
    /\ Len(Printed) = 3
    /\ Printed[1].kind = "NO MATCH!"
    /\ Printed[2].kind = "Ok!"
    /\ Printed[3].kind = "NO MATCH!"

\* C6: a mode other than etag, md5 and s3uri prints exactly one line naming
\* the mode, reads no file, makes no remote call and returns normally.
C6_UnrecognizedModeIsNoOp ==
    (Called /\ args.mode \notin {"etag", "md5", "s3uri"})
    => /\ pc = "done"
       /\ raised = "none"
       /\ trace = <<NotRecognized(args.mode)>>
       /\ data = <<>>

C6_Witness ==
    /\ pc = "done"
    /\ args.mode = "bogus"
    /\ Len(args.hashes) = 2
    /\ \E n \in FileNames : ~fs[n].readable
    /\ Len(trace) = 1

\* C10: in mode s3uri an entry whose expected digest is the wire form '"d"'
\* is classified Ok! / NO MATCH! as the same entry with the bare d is.
C10_QuotedExpectedClassifiedAsBare ==
    RemoteMode
    => \A p \in DOMAIN trace :
        trace[p].kind \in {"Ok!", "NO MATCH!"}
        => LET reported == IF trace[p].kind = "Ok!" THEN trace[p].e ELSE trace[p].a
           IN  trace[p].kind = "Ok!" <=> reported = strip(trace[p].e, QUOTE)

====
